---------------------------- MODULE Spec2Model ----------------------------
(***************************************************************************)
(* ClipMaster main process (Electron): the clipboard history store, the   *)
(* adaptive clipboard poller, the theme value and the IPC command         *)
(* handlers, modelled from the main-process source.                       *)
(*                                                                         *)
(* A JavaScript string is a sequence of UTF-16 code units; here a         *)
(* sequence of one-character strings.  A JavaScript value handed to       *)
(* addToHistory is a record [type, str, truthy].                          *)
(***************************************************************************)
EXTENDS Integers, Sequences, FiniteSets, TLC

VARIABLES
    history,                \* store 'history': sequence of items, newest first
    theme,                  \* store 'theme'
    maxHistory,             \* store 'maxHistory'
    maxCharacters,          \* store 'maxCharacters'
    lastClipboardContent,   \* main-process global
    clipboardCheckInterval, \* period of the armed setInterval timer, 0 = none
    timers,                 \* the setInterval timers armed and not cleared, oldest first
    issuedIds,              \* every id generateId has returned so far
    historyWindow,          \* "null" | "visible" | "hidden"
    readyToShowPending,     \* the once('ready-to-show') listener has not run yet
    clipboard,              \* the OS clipboard text (clipboard.readText())
    clipboardWriter,        \* who wrote the clipboard last: "paste" (paste-item) or "other"
    now,                    \* the last value Date.now() returned
    historyData,            \* renderer: the history last received
    filteredHistory,        \* renderer: the items the search leaves in the list
    selectedIndex,          \* renderer: index of the selected item, from 0
    currentTheme,           \* renderer: the theme applied
    rendererLoaded,         \* renderer: renderer.js has run, its IPC handlers are registered
    lastOp                  \* observation of the last handler that ran

vars == << history, theme, maxHistory, maxCharacters, lastClipboardContent,
           clipboardCheckInterval, timers, issuedIds, historyWindow, readyToShowPending,
           clipboard, clipboardWriter, now, historyData, filteredHistory,
           selectedIndex, currentTheme, rendererLoaded, lastOp >>

\* The state of the main process, the store and the clipboard
mainVars == << history, theme, maxHistory, maxCharacters, lastClipboardContent,
               clipboardCheckInterval, timers, issuedIds, historyWindow,
               readyToShowPending, clipboard, clipboardWriter, now >>

\* The state of the renderer of the history window
rendererVars == << historyData, filteredHistory, selectedIndex, currentTheme,
                   rendererLoaded >>

-----------------------------------------------------------------------------
(* Bounds of the model *)

\* Date.now() values are 0..MaxClock; every poll tick takes the clock forward.
MaxClock == 3
\* The persisted maxHistory is one of 1..MaxHistoryCfg.
MaxHistoryCfg == 3
\* The persisted maxCharacters is one of 1..MaxCharactersCfg.
MaxCharactersCfg == 2

(* Program constants *)
IdleInterval == 5000
ActiveInterval == 200

\* Outcomes of Math.random().toString(36).substr(2, 9) in generateId: the
\* case least favourable to distinct ids, every call giving the same suffix.
RandomSuffixes == {"r"}

Min(a, b) == IF a < b THEN a ELSE b

-----------------------------------------------------------------------------
(* JavaScript strings and values *)

Whitespace == {" ", "\t", "\n"}

\* Texts an application may put on the clipboard.
Texts ==
    { << >>,
      << " " >>,
      << "a" >>,
      << " ", "a", " " >>,
      << "a", " ", "b" >> }

JsString(s) == [type |-> "string", str |-> s, truthy |-> s # << >>]

\* Values that are not strings: undefined, null, 0, 7, {}
NonStrings ==
    { [type |-> "undefined", str |-> << >>, truthy |-> FALSE],
      [type |-> "object",    str |-> << >>, truthy |-> FALSE],
      [type |-> "number",    str |-> << >>, truthy |-> FALSE],
      [type |-> "number",    str |-> << >>, truthy |-> TRUE],
      [type |-> "object",    str |-> << >>, truthy |-> TRUE] }

RECURSIVE trimStart(_)
trimStart(s) ==
    IF s # << >> /\ Head(s) \in Whitespace THEN trimStart(Tail(s)) ELSE s

RECURSIVE trimEnd(_)
trimEnd(s) ==
    IF s # << >> /\ s[Len(s)] \in Whitespace
    THEN trimEnd(SubSeq(s, 1, Len(s) - 1))
    ELSE s

\* String.prototype.trim
trim(s) == trimEnd(trimStart(s))

\* String.prototype.substring(0, n), n >= 0
substring0(s, n) == SubSeq(s, 1, Min(n, Len(s)))

\* Array.prototype.slice(0, n), n >= 0
slice0(h, n) == SubSeq(h, 1, Min(n, Len(h)))

-----------------------------------------------------------------------------
(* Clipboard history management *)

\* addToHistory: if (!content || typeof content !== 'string') return;
isInvalidContent(content) == ~content.truthy \/ content.type # "string"

\* Faulty variant: the blank check is missing.
isEmptyAfterTrim_Never(trimmed) == FALSE

\* addToHistory: if (content.length === 0) return;   (after content.trim())
isEmptyAfterTrim(trimmed) == Len(trimmed) = 0

\* Faulty variant: the content is compared with every stored item.
isDuplicateOfTop_Anywhere(h, content) ==
    \E i \in 1..Len(h) : h[i].content = content

\* addToHistory: history.length > 0 && history[0].content === content
isDuplicateOfTop(h, content) == Len(h) > 0 /\ h[1].content = content

\* addToHistory: const isTruncated = content.length > maxCharacters
needsTruncation(content, maxChars) == Len(content) > maxChars

\* Faulty variant: the cut is one code unit too long.
truncateContent_OneMore(content, maxChars) ==
    IF needsTruncation(content, maxChars)
    THEN substring0(content, maxChars + 1)
    ELSE content

\* addToHistory: if (isTruncated) content = content.substring(0, maxCharacters)
truncateContent(content, maxChars) ==
    IF needsTruncation(content, maxChars)
    THEN substring0(content, maxChars)
    ELSE content

\* Faulty variant: the id is the random suffix alone.
generateId_NoTime(t, rnd) == << 0, rnd >>

\* generateId: `${Date.now()}-${Math.random().toString(36).substr(2, 9)}`
generateId(t, rnd) == << t, rnd >>

\* Faulty variant: charCount is taken before the truncation.
newItem_CountBeforeCut(trimmed, maxChars, t, rnd) ==
    [ id          |-> generateId(t, rnd),
      content     |-> truncateContent(trimmed, maxChars),
      timestamp   |-> t,
      charCount   |-> Len(trimmed),
      isTruncated |-> needsTruncation(trimmed, maxChars) ]

\* addToHistory: const newItem = { id, content, timestamp, charCount, isTruncated }
newItem(trimmed, maxChars, t, rnd) ==
    [ id          |-> generateId(t, rnd),
      content     |-> truncateContent(trimmed, maxChars),
      timestamp   |-> t,
      charCount   |-> Len(truncateContent(trimmed, maxChars)),
      isTruncated |-> needsTruncation(trimmed, maxChars) ]

\* Faulty variant: the limit is not enforced.
enforceLimit_NoCut(h, maxH) == h

\* Faulty variant: the newest items are dropped instead of the oldest.
enforceLimit_KeepsOldest(h, maxH) ==
    IF Len(h) > maxH THEN SubSeq(h, Len(h) - maxH + 1, Len(h)) ELSE h

\* addToHistory: if (history.length > maxHistory) history = history.slice(0, maxHistory)
enforceLimit(h, maxH) == IF Len(h) > maxH THEN slice0(h, maxH) ELSE h

\* addToHistory: the call passes its three early returns and reaches
\* saveHistory.  The duplicate check compares the trimmed content, before
\* any truncation, with the content stored at index 0.
reachesSave(h, content) ==
    /\ ~isInvalidContent(content)
    /\ ~isEmptyAfterTrim(trim(content.str))
    /\ ~isDuplicateOfTop(h, trim(content.str))

\* addToHistory: content.trim() raises a TypeError when the first check let a
\* value through that is not a string.
addToHistoryThrows(content) == ~isInvalidContent(content) /\ content.type # "string"

\* Faulty variant: the new item is put at the end of the array.
addToHistory_Appends(h, content, maxChars, maxH, t, rnd) ==
    IF reachesSave(h, content)
    THEN enforceLimit(h \o << newItem(trim(content.str), maxChars, t, rnd) >>, maxH)
    ELSE h

\* Faulty variant: a call dropped as a duplicate of the newest item gives
\* that item the time of the call.
addToHistory_RestampsDuplicate(h, content, maxChars, maxH, t, rnd) ==
    IF reachesSave(h, content)
    THEN enforceLimit(<< newItem(trim(content.str), maxChars, t, rnd) >> \o h, maxH)
    ELSE IF ~isInvalidContent(content) /\ isDuplicateOfTop(h, trim(content.str))
         THEN [ h EXCEPT ![1].timestamp = t ]
         ELSE h

\* addToHistory(content): the stored history after the call; t is what
\* Date.now() returns, rnd the random suffix of the id.
addToHistory(h, content, maxChars, maxH, t, rnd) ==
    IF reachesSave(h, content)
    THEN enforceLimit(<< newItem(trim(content.str), maxChars, t, rnd) >> \o h, maxH)
    ELSE h

\* Faulty variant: the item and everything older than it are removed.
removeItem_AndOlder(h, itemId) ==
    IF \E i \in 1..Len(h) : h[i].id = itemId
    THEN SubSeq(h, 1, (CHOOSE i \in 1..Len(h) : h[i].id = itemId) - 1)
    ELSE h

\* ipcMain.on('delete-item'): history.filter(item => item.id !== itemId)
removeItem(h, itemId) == SelectSeq(h, LAMBDA item : item.id # itemId)

\* Faulty variant: the newest item survives.
clearHistory_KeepsNewest == IF history = << >> THEN << >> ELSE << history[1] >>

\* clearHistory: saveHistory([])
clearHistory == << >>

\* Faulty variant: the theme never goes back to 'dark'.
newTheme_OneWay(storedTheme) == "light"

\* toggleTheme: currentTheme === 'dark' ? 'light' : 'dark'
newTheme(storedTheme) == IF storedTheme = "dark" THEN "light" ELSE "dark"

\* Faulty variant: every tick is taken for a change.
clipboardChanged_Always(currentContent, last) == TRUE

\* the interval callback: currentContent !== lastClipboardContent
clipboardChanged(currentContent, last) == currentContent # last

\* setInterval(callback, interval): a timer that has run for no time yet
newTimer(interval) == [ period |-> interval, elapsed |-> 0 ]

\* Faulty variant: the new timer is armed and the old one is not cleared.
adjustPollingRate_NoClear(ts, handle, interval) == ts \o << newTimer(interval) >>

\* Faulty variant: the old timer is cleared and no new one is armed.
adjustPollingRate_NoRearm(ts, handle, interval) ==
    IF handle # 0 THEN SubSeq(ts, 1, Len(ts) - 1) ELSE ts

\* adjustPollingRate(interval): the armed timers after the call.  The handle
\* in clipboardCheckInterval is that of the timer armed last; clearInterval
\* takes that timer away, setInterval arms a new one.
adjustPollingRate(ts, handle, interval) ==
    (IF handle # 0 THEN SubSeq(ts, 1, Len(ts) - 1) ELSE ts) \o << newTimer(interval) >>

\* webContents.send('update-history', { history, theme }) and event.reply
updateHistoryMessage(h, t) == [ channel |-> "update-history", history |-> h, theme |-> t ]

\* webContents.send('theme-changed', newTheme)
themeChangedMessage(t) == [ channel |-> "theme-changed", history |-> << >>, theme |-> t ]

\* renderer, ipcRenderer.on('theme-changed'): currentTheme = theme
rendererThemeAfter(msg) == msg.theme

-----------------------------------------------------------------------------
(* Inputs of the handlers *)

\* Ids an item of this run can carry.
Ids == { generateId(t, rnd) : t \in 1..MaxClock, rnd \in RandomSuffixes }

\* Contents an item shown by the renderer can carry: what addToHistory stores.
StoredContents ==
    { truncateContent(trim(s), maxCharacters) : s \in { x \in Texts : trim(x) # << >> } }

NoId == << 0, "" >>

Op(name, id, calls) ==
    [ name     |-> name,     \* the handler
      id       |-> id,       \* its id argument
      calls    |-> calls,    \* the arguments addToHistory was called with, in order
      pre      |-> history,  \* the stored history when the handler started
      issued   |-> issuedIds,\* the ids generateId had returned when it started
      text     |-> << >>,    \* its text argument
      sent     |-> << >>,    \* the messages it sent to the renderer, in order
      failure  |-> "none",   \* "read": clipboard.readText threw, "write": store.set threw
      uncaught |-> FALSE ]   \* an exception left the handler

-----------------------------------------------------------------------------
(* State after app.whenReady: startClipboardMonitoring has run *)

\* renderer.js, state management: the state of a renderer that has loaded
RendererInit ==
    /\ historyData = << >>
    /\ filteredHistory = << >>
    /\ selectedIndex = 0
    /\ currentTheme = "dark"

Init ==
    /\ history = << >>
    /\ theme = "dark"
    /\ maxHistory \in 1..MaxHistoryCfg
    /\ maxCharacters \in 1..MaxCharactersCfg
    /\ clipboard \in Texts
    /\ clipboardWriter = "other"
    /\ lastClipboardContent = clipboard
    /\ clipboardCheckInterval = IdleInterval
    /\ timers = << newTimer(IdleInterval) >>
    /\ issuedIds = {}
    /\ historyWindow = "null"
    /\ readyToShowPending = FALSE
    /\ now = 0
    /\ RendererInit
    /\ rendererLoaded = FALSE
    /\ lastOp = Op("start", NoId, << >>)

-----------------------------------------------------------------------------
(* Operations *)

\* Another application copies text s.
SetClipboard(s) ==
    /\ s # clipboard
    /\ clipboard' = s
    /\ clipboardWriter' = "other"
    /\ lastOp' = Op("copy", NoId, << >>)
    /\ UNCHANGED << history, theme, maxHistory, maxCharacters, lastClipboardContent,
                    clipboardCheckInterval, timers, historyWindow,
                    readyToShowPending, now >>
    /\ UNCHANGED issuedIds
    /\ UNCHANGED rendererVars

\* The setInterval callback of adjustPollingRate, run by armed timer i, which
\* then starts its next period.  Date.now() is read only when an item is
\* created; two ticks are at least 200 ms apart, so each reading is later
\* than the one before; the run creates at most `limit` items.
Fire(i, limit) ==
    /\ timers' = [ timers EXCEPT ![i].elapsed = 0 ]
    /\ LET currentContent == clipboard IN
       IF clipboardChanged(currentContent, lastClipboardContent)
       THEN /\ lastClipboardContent' = currentContent
            /\ \E rnd \in RandomSuffixes :
                 /\ history' = addToHistory(history, JsString(currentContent),
                                            maxCharacters, maxHistory, now + 1, rnd)
                 /\ issuedIds' = IF reachesSave(history, JsString(currentContent))
                                 THEN issuedIds \cup { generateId(now + 1, rnd) }
                                 ELSE issuedIds
            /\ reachesSave(history, JsString(currentContent)) => now < limit
            /\ now' = IF reachesSave(history, JsString(currentContent))
                      THEN now + 1 ELSE now
            /\ lastOp' = Op("tick", NoId, << JsString(currentContent) >>)
       ELSE /\ UNCHANGED << lastClipboardContent, history, now, issuedIds >>
            /\ lastOp' = Op("tick", NoId, << >>)
    /\ UNCHANGED << theme, maxHistory, maxCharacters, clipboardCheckInterval,
                    historyWindow, readyToShowPending, clipboard >>
    /\ UNCHANGED rendererVars
    /\ UNCHANGED clipboardWriter

\* A poll tick, at whatever time: some armed timer runs the callback.
Tick == \E i \in DOMAIN timers : Fire(i, MaxClock)

\* Faulty variant: the reply carries the history read before the removal.
DeleteItem_StaleReply(itemId) ==
    /\ historyWindow # "null"
    /\ history' = removeItem(history, itemId)
    /\ lastOp' = [ Op("delete", itemId, << >>) EXCEPT
                     !.sent = << updateHistoryMessage(history, theme) >> ]
    /\ UNCHANGED << theme, maxHistory, maxCharacters, lastClipboardContent,
                    clipboardCheckInterval, timers, historyWindow,
                    readyToShowPending, clipboard, now >>
    /\ UNCHANGED issuedIds
    /\ UNCHANGED rendererVars
    /\ UNCHANGED clipboardWriter

\* ipcMain.on('delete-item'), sent by the renderer of the history window.
DeleteItem(itemId) ==
    /\ historyWindow # "null"
    /\ history' = removeItem(history, itemId)
    /\ lastOp' = [ Op("delete", itemId, << >>) EXCEPT
                     !.sent = << updateHistoryMessage(history', theme) >> ]
    /\ UNCHANGED << theme, maxHistory, maxCharacters, lastClipboardContent,
                    clipboardCheckInterval, timers, historyWindow,
                    readyToShowPending, clipboard, now >>
    /\ UNCHANGED issuedIds
    /\ UNCHANGED rendererVars
    /\ UNCHANGED clipboardWriter

\* Faulty variant: clearing also forgets the text observed last.
ClearHistory_ForgetsLast ==
    /\ history' = clearHistory
    /\ lastClipboardContent' = << >>
    /\ lastOp' = Op("clear", NoId, << >>)
    /\ UNCHANGED << theme, maxHistory, maxCharacters,
                    clipboardCheckInterval, timers, historyWindow,
                    readyToShowPending, clipboard, now >>
    /\ UNCHANGED issuedIds
    /\ UNCHANGED rendererVars
    /\ UNCHANGED clipboardWriter

\* clearHistory, from the tray menu.
ClearHistory ==
    /\ history' = clearHistory
    /\ lastOp' = Op("clear", NoId, << >>)
    /\ UNCHANGED << theme, maxHistory, maxCharacters, lastClipboardContent,
                    clipboardCheckInterval, timers, historyWindow,
                    readyToShowPending, clipboard, now >>
    /\ UNCHANGED issuedIds
    /\ UNCHANGED rendererVars
    /\ UNCHANGED clipboardWriter

\* Faulty variant: the message carries the theme read before the change.
ToggleTheme_SendsOld ==
    /\ theme' = newTheme(theme)
    /\ lastOp' = [ Op("toggle", NoId, << >>) EXCEPT
                     !.sent = IF historyWindow # "null"
                              THEN << themeChangedMessage(theme) >>
                              ELSE << >> ]
    /\ UNCHANGED << history, maxHistory, maxCharacters, lastClipboardContent,
                    clipboardCheckInterval, timers, historyWindow,
                    readyToShowPending, clipboard, now >>
    /\ UNCHANGED issuedIds
    /\ UNCHANGED rendererVars
    /\ UNCHANGED clipboardWriter

\* toggleTheme, from the shortcut, the tray menu or the renderer; the new
\* theme is sent only if (historyWindow).
ToggleTheme ==
    /\ theme' = newTheme(theme)
    /\ lastOp' = [ Op("toggle", NoId, << >>) EXCEPT
                     !.sent = IF historyWindow # "null"
                              THEN << themeChangedMessage(theme') >>
                              ELSE << >> ]
    /\ UNCHANGED << history, maxHistory, maxCharacters, lastClipboardContent,
                    clipboardCheckInterval, timers, historyWindow,
                    readyToShowPending, clipboard, now >>
    /\ UNCHANGED issuedIds
    /\ UNCHANGED rendererVars
    /\ UNCHANGED clipboardWriter

\* Faulty variant: a poll callback runs between the write of the clipboard
\* and the assignment of lastClipboardContent.
PasteItem_TickBetween(content) ==
    /\ historyWindow # "null"
    /\ clipboard' = content
    /\ clipboardWriter' = "paste"
    /\ LET seen == clipboardChanged(content, lastClipboardContent)
                   /\ reachesSave(history, JsString(content))
       IN  /\ seen => now < MaxClock
           /\ \E rnd \in RandomSuffixes :
                /\ history' = IF seen
                              THEN addToHistory(history, JsString(content), maxCharacters,
                                                maxHistory, now + 1, rnd)
                              ELSE history
                /\ issuedIds' = IF seen THEN issuedIds \cup { generateId(now + 1, rnd) }
                                ELSE issuedIds
           /\ now' = IF seen THEN now + 1 ELSE now
    /\ lastClipboardContent' = content
    /\ historyWindow' = "hidden"
    /\ clipboardCheckInterval' = IdleInterval
    /\ timers' = adjustPollingRate(timers, clipboardCheckInterval, IdleInterval)
    /\ lastOp' = [ Op("paste", NoId, << >>) EXCEPT !.text = content ]
    /\ UNCHANGED << theme, maxHistory, maxCharacters, readyToShowPending >>
    /\ UNCHANGED rendererVars

\* Faulty variant: the handler writes the clipboard and leaves
\* lastClipboardContent as it was.
PasteItem_ForgetsLast(content) ==
    /\ historyWindow # "null"
    /\ clipboard' = content
    /\ clipboardWriter' = "paste"
    /\ historyWindow' = "hidden"
    /\ clipboardCheckInterval' = IdleInterval
    /\ timers' = adjustPollingRate(timers, clipboardCheckInterval, IdleInterval)
    /\ lastOp' = [ Op("paste", NoId, << >>) EXCEPT !.text = content ]
    /\ UNCHANGED << history, theme, maxHistory, maxCharacters, lastClipboardContent,
                    readyToShowPending, now >>
    /\ UNCHANGED issuedIds
    /\ UNCHANGED rendererVars

\* ipcMain.on('paste-item'): writes the clipboard, hides the window; the
\* window's 'hide' listener runs adjustPollingRate(5000).
PasteItem(content) ==
    /\ historyWindow # "null"
    /\ clipboard' = content
    /\ clipboardWriter' = "paste"
    /\ lastClipboardContent' = content
    /\ historyWindow' = "hidden"
    /\ clipboardCheckInterval' = IdleInterval
    /\ timers' = adjustPollingRate(timers, clipboardCheckInterval, IdleInterval)
    /\ lastOp' = [ Op("paste", NoId, << >>) EXCEPT !.text = content ]
    /\ UNCHANGED << history, theme, maxHistory, maxCharacters, readyToShowPending, now >>
    /\ UNCHANGED issuedIds
    /\ UNCHANGED rendererVars

\* showHistoryWindow, from the shortcut or the tray.  A new window is made
\* visible by its constructor (show: true), before the 'show' listener is
\* registered; an existing one is shown and its listener runs
\* adjustPollingRate(200).  Then the history and the theme are sent.
ShowHistoryWindow ==
    /\ IF historyWindow = "null"
       THEN /\ readyToShowPending' = TRUE
            /\ UNCHANGED << clipboardCheckInterval, timers >>
       ELSE /\ clipboardCheckInterval' = ActiveInterval
            /\ timers' = adjustPollingRate(timers, clipboardCheckInterval, ActiveInterval)
            /\ UNCHANGED readyToShowPending
    /\ historyWindow' = "visible"
    /\ lastOp' = [ Op("show", NoId, << >>) EXCEPT
                     !.sent = << updateHistoryMessage(history, theme) >> ]
    /\ UNCHANGED << history, theme, maxHistory, maxCharacters, lastClipboardContent,
                    clipboard, now >>
    /\ UNCHANGED issuedIds
    /\ UNCHANGED rendererVars
    /\ UNCHANGED clipboardWriter

\* historyWindow.once('ready-to-show'): show() and focus().
ReadyToShow ==
    /\ readyToShowPending
    /\ readyToShowPending' = FALSE
    /\ historyWindow' = "visible"
    /\ clipboardCheckInterval' = ActiveInterval
    /\ timers' = adjustPollingRate(timers, clipboardCheckInterval, ActiveInterval)
    /\ lastOp' = Op("ready-to-show", NoId, << >>)
    /\ UNCHANGED << history, theme, maxHistory, maxCharacters, lastClipboardContent,
                    clipboard, now >>
    /\ UNCHANGED issuedIds
    /\ UNCHANGED rendererVars
    /\ UNCHANGED clipboardWriter

\* historyWindow.on('blur') and ipcMain.on('close-window'): hide().
HideWindow ==
    /\ historyWindow = "visible"
    /\ historyWindow' = "hidden"
    /\ clipboardCheckInterval' = IdleInterval
    /\ timers' = adjustPollingRate(timers, clipboardCheckInterval, IdleInterval)
    /\ lastOp' = Op("hide", NoId, << >>)
    /\ UNCHANGED << history, theme, maxHistory, maxCharacters, lastClipboardContent,
                    readyToShowPending, clipboard, now >>
    /\ UNCHANGED issuedIds
    /\ UNCHANGED rendererVars
    /\ UNCHANGED clipboardWriter

\* app.on('second-instance'): an existing window is shown and focused, its
\* 'show' listener runs adjustPollingRate(200), and nothing is sent; without a
\* window the handler calls showHistoryWindow.
SecondInstance ==
    /\ IF historyWindow = "null"
       THEN /\ readyToShowPending' = TRUE
            /\ UNCHANGED << clipboardCheckInterval, timers >>
            /\ lastOp' = [ Op("second-instance", NoId, << >>) EXCEPT
                             !.sent = << updateHistoryMessage(history, theme) >> ]
       ELSE /\ clipboardCheckInterval' = ActiveInterval
            /\ timers' = adjustPollingRate(timers, clipboardCheckInterval, ActiveInterval)
            /\ UNCHANGED readyToShowPending
            /\ lastOp' = Op("second-instance", NoId, << >>)
    /\ historyWindow' = "visible"
    /\ UNCHANGED << history, theme, maxHistory, maxCharacters, lastClipboardContent,
                    clipboard, now >>
    /\ UNCHANGED issuedIds
    /\ UNCHANGED rendererVars
    /\ UNCHANGED clipboardWriter

\* app.on('activate'): with no window open, createHistoryWindow makes one,
\* visible from its constructor; nothing is sent.  The history window is
\* the only window and, once made, is hidden on close, never destroyed.
Activate ==
    /\ historyWindow = "null"
    /\ historyWindow' = "visible"
    /\ readyToShowPending' = TRUE
    /\ lastOp' = Op("activate", NoId, << >>)
    /\ UNCHANGED << history, theme, maxHistory, maxCharacters, lastClipboardContent,
                    clipboardCheckInterval, timers, clipboard, now >>
    /\ UNCHANGED issuedIds
    /\ UNCHANGED rendererVars
    /\ UNCHANGED clipboardWriter

Next ==
    \/ \E s \in Texts : SetClipboard(s)
    \/ Tick
    \/ \E itemId \in Ids : DeleteItem(itemId)
    \/ ClearHistory
    \/ ToggleTheme
    \/ \E content \in StoredContents : PasteItem(content)
    \/ ShowHistoryWindow
    \/ ReadyToShow
    \/ HideWindow
    \/ SecondInstance
    \/ Activate

\* The callback of armed timer i when clipboard.readText() throws.  Nothing
\* in the callback catches, so the exception leaves it before any assignment;
\* the timer stays armed.
TickReadFails ==
    \E i \in DOMAIN timers :
        /\ timers' = [ timers EXCEPT ![i].elapsed = 0 ]
        /\ lastOp' = [ Op("tick", NoId, << >>) EXCEPT
                         !.failure = "read", !.uncaught = TRUE ]
        /\ UNCHANGED << history, theme, maxHistory, maxCharacters,
                        lastClipboardContent, clipboardCheckInterval, historyWindow,
                        readyToShowPending, clipboard, now >>
        /\ UNCHANGED issuedIds
        /\ UNCHANGED rendererVars
        /\ UNCHANGED clipboardWriter

\* The callback of armed timer i when store.set throws in saveHistory.
\* lastClipboardContent is assigned before addToHistory is called; nothing
\* catches.  getHistory reads the store, the only copy of the history, and
\* this code does not decide whether the store took the value before the
\* write failed.
TickWriteFails ==
    \E i \in DOMAIN timers :
        /\ clipboardChanged(clipboard, lastClipboardContent)
        /\ reachesSave(history, JsString(clipboard))
        /\ now < MaxClock
        /\ timers' = [ timers EXCEPT ![i].elapsed = 0 ]
        /\ lastClipboardContent' = clipboard
        /\ now' = now + 1
        /\ \E rnd \in RandomSuffixes :
             /\ history' \in { history,
                               addToHistory(history, JsString(clipboard), maxCharacters,
                                            maxHistory, now + 1, rnd) }
             /\ issuedIds' = issuedIds \cup { generateId(now + 1, rnd) }
        /\ lastOp' = [ Op("tick", NoId, << JsString(clipboard) >>) EXCEPT
                         !.failure = "write", !.uncaught = TRUE ]
        /\ UNCHANGED << theme, maxHistory, maxCharacters, clipboardCheckInterval,
                        historyWindow, readyToShowPending, clipboard >>
        /\ UNCHANGED rendererVars
        /\ UNCHANGED clipboardWriter

\* delete-item when store.set throws in saveHistory: the reply is not reached.
DeleteWriteFails(itemId) ==
    /\ historyWindow # "null"
    /\ history' \in { history, removeItem(history, itemId) }
    /\ lastOp' = [ Op("delete", itemId, << >>) EXCEPT
                     !.failure = "write", !.uncaught = TRUE ]
    /\ UNCHANGED << theme, maxHistory, maxCharacters, lastClipboardContent,
                    clipboardCheckInterval, timers, historyWindow,
                    readyToShowPending, clipboard, now >>
    /\ UNCHANGED issuedIds
    /\ UNCHANGED rendererVars
    /\ UNCHANGED clipboardWriter

\* Tray 'Clear History' when store.set throws in saveHistory.
ClearWriteFails ==
    /\ history' \in { history, clearHistory }
    /\ lastOp' = [ Op("clear", NoId, << >>) EXCEPT
                     !.failure = "write", !.uncaught = TRUE ]
    /\ UNCHANGED << theme, maxHistory, maxCharacters, lastClipboardContent,
                    clipboardCheckInterval, timers, historyWindow,
                    readyToShowPending, clipboard, now >>
    /\ UNCHANGED issuedIds
    /\ UNCHANGED rendererVars
    /\ UNCHANGED clipboardWriter

\* The application where reading the clipboard and writing the store may fail.
NextFaults ==
    \/ Next
    \/ TickReadFails
    \/ TickWriteFails
    \/ \E itemId \in Ids : DeleteWriteFails(itemId)
    \/ ClearWriteFails

SpecFaults == Init /\ [][NextFaults]_vars

\* Faulty variant: the process starts with the defaults of the store, as if
\* nothing had been written.
\* Faulty variant: startClipboardMonitoring does not read the clipboard, the
\* text observed last starts as ''.
Restart_ReadsNothing ==
    /\ lastClipboardContent' = << >>
    /\ clipboardCheckInterval' = IdleInterval
    /\ timers' = << newTimer(IdleInterval) >>
    /\ historyWindow' = "null"
    /\ readyToShowPending' = FALSE
    /\ lastOp' = Op("restart", NoId, << >>)
    /\ UNCHANGED << history, theme, maxHistory, maxCharacters, clipboard, now,
                    issuedIds >>
    /\ historyData' = << >>
    /\ filteredHistory' = << >>
    /\ selectedIndex' = 0
    /\ currentTheme' = "dark"
    /\ rendererLoaded' = FALSE
    /\ UNCHANGED clipboardWriter

Restart_FromDefaults ==
    /\ history' = << >>
    /\ theme' = "dark"
    /\ lastClipboardContent' = clipboard
    /\ clipboardCheckInterval' = IdleInterval
    /\ timers' = << newTimer(IdleInterval) >>
    /\ historyWindow' = "null"
    /\ readyToShowPending' = FALSE
    /\ lastOp' = Op("restart", NoId, << >>)
    /\ UNCHANGED << maxHistory, maxCharacters, clipboard, now, issuedIds >>
    /\ historyData' = << >>
    /\ filteredHistory' = << >>
    /\ selectedIndex' = 0
    /\ currentTheme' = "dark"
    /\ rendererLoaded' = FALSE
    /\ UNCHANGED clipboardWriter

\* The process quits and is started again.  Its globals are initialised
\* anew and startClipboardMonitoring reads the clipboard and arms the 5000 ms
\* timer; the store is the file that saveHistory and toggleTheme wrote on
\* every change, and its defaults fill in only the keys the file lacks.
Restart ==
    /\ lastClipboardContent' = clipboard
    /\ clipboardCheckInterval' = IdleInterval
    /\ timers' = << newTimer(IdleInterval) >>
    /\ historyWindow' = "null"
    /\ readyToShowPending' = FALSE
    /\ lastOp' = Op("restart", NoId, << >>)
    /\ UNCHANGED << history, theme, maxHistory, maxCharacters, clipboard, now,
                    issuedIds >>
    /\ historyData' = << >>
    /\ filteredHistory' = << >>
    /\ selectedIndex' = 0
    /\ currentTheme' = "dark"
    /\ rendererLoaded' = FALSE
    /\ UNCHANGED clipboardWriter

\* The application over several runs of the process.
NextRestart ==
    \/ Next
    \/ Restart

SpecRestart == Init /\ [][NextRestart]_vars

\* The defaults of the store, in force when no configuration was persisted
DefaultMaxHistory == 15
DefaultMaxCharacters == 5000

\* The capacity the README states
ReadmeMaxHistory == 30

InitDefaults ==
    /\ history = << >>
    /\ theme = "dark"
    /\ maxHistory = DefaultMaxHistory
    /\ maxCharacters = DefaultMaxCharacters
    /\ clipboard \in Texts
    /\ clipboardWriter = "other"
    /\ lastClipboardContent = clipboard
    /\ clipboardCheckInterval = IdleInterval
    /\ timers = << newTimer(IdleInterval) >>
    /\ issuedIds = {}
    /\ historyWindow = "null"
    /\ readyToShowPending = FALSE
    /\ now = 0
    /\ RendererInit
    /\ rendererLoaded = FALSE
    /\ lastOp = Op("start", NoId, << >>)

\* A poll tick of a run long enough to fill the default capacity and add once more.
TickDefaults == \E i \in DOMAIN timers : Fire(i, DefaultMaxHistory + 1)

\* Copies and poll ticks on a store without persisted configuration.
NextDefaults ==
    \/ \E s \in Texts : SetClipboard(s)
    \/ TickDefaults

SpecDefaults == InitDefaults /\ [][NextDefaults]_vars

-----------------------------------------------------------------------------
(* The renderer of the history window *)

\* The longest history the renderer is given
MaxShown == 11

\* String.prototype.toLowerCase, on the letters of the model
lowerCaseOf(c) == IF c = "A" THEN "a" ELSE IF c = "B" THEN "b" ELSE c

RECURSIVE toLowerCase(_)
toLowerCase(s) ==
    IF s = << >> THEN << >> ELSE << lowerCaseOf(Head(s)) >> \o toLowerCase(Tail(s))

\* String.prototype.includes
includes(s, q) ==
    \E k \in 1..(Len(s) + 1) :
        k + Len(q) - 1 <= Len(s) /\ SubSeq(s, k, k + Len(q) - 1) = q

\* handleSearch: historyData.filter(item => item.content.toLowerCase().includes(query))
RECURSIVE filterByQuery(_, _)
filterByQuery(h, query) ==
    IF h = << >> THEN << >>
    ELSE (IF includes(toLowerCase(Head(h).content), query)
          THEN << Head(h) >> ELSE << >>) \o filterByQuery(Tail(h), query)

\* handleSearch: the items left by the text of the search input
filterHistory(h, value) ==
    IF trim(toLowerCase(value)) = << >> THEN h
    ELSE filterByQuery(h, trim(toLowerCase(value)))

\* The keys event.key >= '0' && event.key <= '9' lets through
DigitKeys == << "0", "1", "2", "3", "4", "5", "6", "7", "8", "9" >>

\* parseInt(event.key) of a digit key
parseInt(key) == CHOOSE n \in 0..9 : DigitKeys[n + 1] = key

\* Faulty variant: the digit is taken as the index.
quickPasteIndex_NoOffset(key) == parseInt(key)

\* handleKeyboard: event.key === '0' ? 9 : parseInt(event.key) - 1
quickPasteIndex(key) == IF key = "0" THEN 9 ELSE parseInt(key) - 1

\* pasteItem: ipcRenderer.send('paste-item', item.content)
pasteItemMessage(content) == [ channel |-> "paste-item", content |-> content ]

\* The contents of the histories the store holds when the renderer starts
ShownContent(i, p) == IF (i + p) % 2 = 0 THEN << "a" >> ELSE << "A", " ", "b" >>

\* The stored histories the renderer starts from, written by earlier poll
\* ticks: items i..n of n, newest first
RECURSIVE ShownItems(_, _, _)
ShownItems(i, n, p) ==
    IF i > n THEN << >>
    ELSE << newItem(ShownContent(i, p), DefaultMaxCharacters, n + 1 - i,
                    CHOOSE rnd \in RandomSuffixes : TRUE) >> \o ShownItems(i + 1, n, p)

ShownHistory(n, p) == ShownItems(1, n, p)

\* The texts typed into the search input
Queries == { << >>, << "a" >>, << "B", " " >>, << "z" >> }

\* ipcRenderer.on('update-history')
OnUpdateHistory(data) ==
    /\ historyData' = data.history
    /\ filteredHistory' = data.history
    /\ currentTheme' = data.theme
    /\ selectedIndex' = 0
    /\ lastOp' = Op("update-history", NoId, << >>)
    /\ UNCHANGED rendererLoaded
    /\ UNCHANGED mainVars

\* handleSearch, on every input event of the search input
HandleSearch(value) ==
    /\ filteredHistory' = filterHistory(historyData, value)
    /\ selectedIndex' = 0
    /\ lastOp' = [ Op("search", NoId, << >>) EXCEPT !.text = value ]
    /\ UNCHANGED << historyData, currentTheme, rendererLoaded >>
    /\ UNCHANGED mainVars

\* handleKeyboard, default case: a digit key
HandleDigitKey(key) ==
    /\ lastOp' = [ Op("key", NoId, << >>) EXCEPT
                     !.text = << key >>,
                     !.sent = IF quickPasteIndex(key) < Len(filteredHistory)
                              THEN << pasteItemMessage(
                                        filteredHistory[quickPasteIndex(key) + 1].content) >>
                              ELSE << >> ]
    /\ UNCHANGED rendererVars
    /\ UNCHANGED mainVars

\* The history window is open and its page loaded, over a store that
\* earlier runs have filled under the default limits.
InitRenderer ==
    /\ \E n \in 0..MaxShown, p \in 0..1 :
         /\ history = ShownHistory(n, p)
         /\ now = n
    /\ issuedIds = { history[i].id : i \in 1..Len(history) }
    /\ theme \in {"dark", "light"}
    /\ maxHistory = DefaultMaxHistory
    /\ maxCharacters = DefaultMaxCharacters
    /\ clipboard = << >>
    /\ clipboardWriter = "other"
    /\ lastClipboardContent = clipboard
    /\ clipboardCheckInterval = ActiveInterval
    /\ timers = << newTimer(ActiveInterval) >>
    /\ historyWindow = "visible"
    /\ readyToShowPending = FALSE
    /\ RendererInit
    /\ rendererLoaded = TRUE
    /\ lastOp = Op("start", NoId, << >>)

\* The renderer: it receives the snapshot the main process sends, searches
\* it and takes keys.
NextRenderer ==
    \/ OnUpdateHistory(updateHistoryMessage(history, theme))
    \/ \E value \in Queries : HandleSearch(value)
    \/ \E k \in DOMAIN DigitKeys : HandleDigitKey(DigitKeys[k])

SpecRenderer == InitRenderer /\ [][NextRenderer]_vars

\* The grain of time of the timed specification: the shorter polling period.
TimeStep == ActiveInterval

\* Time passes for every armed timer.  A timer whose period has run out runs
\* its callback before any more time passes.
AdvanceTime ==
    /\ \A i \in DOMAIN timers : timers[i].elapsed + TimeStep <= timers[i].period
    /\ timers' = [ i \in DOMAIN timers |->
                     [ timers[i] EXCEPT !.elapsed = @ + TimeStep ] ]
    /\ lastOp' = Op("time", NoId, << >>)
    /\ UNCHANGED << history, theme, maxHistory, maxCharacters, lastClipboardContent,
                    clipboardCheckInterval, historyWindow, readyToShowPending,
                    clipboard, now >>
    /\ UNCHANGED issuedIds
    /\ UNCHANGED rendererVars
    /\ UNCHANGED clipboardWriter

\* A poll tick at its time: a timer whose period has run out runs the callback.
TimedTick ==
    \E i \in DOMAIN timers :
        /\ timers[i].elapsed >= timers[i].period
        /\ Fire(i, MaxClock)

\* The poller and the window under the passing of time; the clipboard is
\* written by paste-item only.
NextTimer ==
    \/ AdvanceTime
    \/ TimedTick
    \/ \E content \in StoredContents : PasteItem(content)
    \/ ShowHistoryWindow
    \/ ReadyToShow
    \/ HideWindow
    \/ SecondInstance
    \/ Activate

SpecTimer == Init /\ [][NextTimer]_vars

Spec == Init /\ [][Next]_vars

-----------------------------------------------------------------------------
(* Observations used by the properties *)

\* The last handler was a poll tick that called addToHistory and the call
\* stored an item.
TickStored ==
    /\ lastOp.name = "tick"
    /\ lastOp.calls # << >>
    /\ reachesSave(lastOp.pre, lastOp.calls[1])

\* The raw text the last tick handed to addToHistory.
RawAdded == lastOp.calls[1].str

\* Positions of pre-history items that carry the id the last delete got.
DeletedAt == { i \in 1..Len(lastOp.pre) : lastOp.pre[i].id = lastOp.id }

\* Sequence s without its i-th element.
Without(s, i) == SubSeq(s, 1, i - 1) \o SubSeq(s, i + 1, Len(s))

\* What addToHistory does not store: non-strings, "" and blank strings.
InvalidInputs == NonStrings \cup { JsString(s) : s \in { x \in Texts : trim(x) = << >> } }

-----------------------------------------------------------------------------
(* Properties *)

\* C1: the stored history never holds more than maxHistory items.
CapacityBound == Len(history) <= maxHistory

\* C1 witness: a tick stored an item into a history that was already full.
CapacityBound_Witness ==
    TickStored /\ Len(lastOp.pre) = maxHistory /\ Len(history) = maxHistory

\* C2: for every raw content with a non-empty trimmed form, adding it twice
\* in a row to the stored history stores one item: the second call changes
\* nothing.
AddTwiceStoresOnce ==
    \A s \in Texts : \A r1, r2 \in RandomSuffixes :
        trim(s) # << >> =>
            LET once  == addToHistory(history, JsString(s), maxCharacters,
                                      maxHistory, now + 1, r1)
                twice == addToHistory(once, JsString(s), maxCharacters,
                                      maxHistory, now + 2, r2)
            IN  twice = once

\* C3: an item stored for raw content r holds the first
\* min(len(trim(r)), maxCharacters) code units of trim(r); it is flagged
\* truncated exactly when trim(r) is longer than maxCharacters, and then its
\* charCount is maxCharacters.
TruncationLaw ==
    TickStored =>
        LET t == trim(RawAdded)
            item == history[1]
        IN  /\ item.content = SubSeq(t, 1, Min(Len(t), maxCharacters))
            /\ item.isTruncated <=> (Len(t) > maxCharacters)
            /\ Len(t) > maxCharacters => item.charCount = maxCharacters

\* C3 witness: a tick stored content longer than maxCharacters.
TruncationLaw_Witness == TickStored /\ Len(trim(RawAdded)) > maxCharacters

\* C4: every stored item has charCount = length(content) <= maxCharacters.
PerItemLength ==
    \A i \in 1..Len(history) :
        /\ history[i].charCount = Len(history[i].content)
        /\ Len(history[i].content) <= maxCharacters

\* C4 witness: a truncated item next to one that was not truncated.
PerItemLength_Witness ==
    /\ Len(history) >= 2
    /\ \E i, j \in 1..Len(history) : history[i].isTruncated /\ ~history[j].isTruncated

\* C5: addToHistory with a non-string, "" or a blank string raises no error
\* and leaves the stored history as it is, from every reachable history and
\* in every tick that reads such a text.
InvalidInputNoOp ==
    /\ \A v \in InvalidInputs : \A rnd \in RandomSuffixes :
          /\ ~addToHistoryThrows(v)
          /\ addToHistory(history, v, maxCharacters, maxHistory, now + 1, rnd) = history
    /\ (lastOp.name = "tick" /\ lastOp.calls # << >> /\ lastOp.calls[1] \in InvalidInputs)
          => history = lastOp.pre

\* C5 witness: a tick handed a blank text to addToHistory, the history not empty.
InvalidInputNoOp_Witness ==
    /\ lastOp.name = "tick"
    /\ lastOp.calls = << JsString(<< " " >>) >>
    /\ history # << >>

\* C6: a stored item goes to index 0, followed by the first
\* min(len(h), maxHistory - 1) items of the previous history h, in order.
FifoEviction ==
    TickStored =>
        /\ history[1].timestamp = now
        /\ history[1].content = truncateContent(trim(RawAdded), maxCharacters)
        /\ Tail(history) = SubSeq(lastOp.pre, 1, Min(Len(lastOp.pre), maxHistory - 1))

\* C6 witness: an item was stored into a full history of two or more items,
\* so the oldest was dropped and at least one is kept.
FifoEviction_Witness ==
    TickStored /\ Len(lastOp.pre) = maxHistory /\ maxHistory >= 2

\* C7: delete-item with an id in the history removes the one item with that
\* id and keeps the others in order; with an id not in the history it keeps
\* the history; deleting the same id again changes nothing.
DeleteRemovesExactlyOne ==
    lastOp.name = "delete" =>
        /\ DeletedAt = {} => history = lastOp.pre
        /\ DeletedAt # {} =>
              /\ Cardinality(DeletedAt) = 1
              /\ \A i \in DeletedAt : history = Without(lastOp.pre, i)
        /\ removeItem(history, lastOp.id) = history

\* C7 witness: the middle one of three items was deleted.
DeleteRemovesExactlyOne_Witness ==
    lastOp.name = "delete" /\ Len(lastOp.pre) = 3 /\ DeletedAt = {2}

\* C8: after clearHistory the stored history is empty.
ClearEmpties == lastOp.name = "clear" => history = << >>

\* C8 witness: a history of two or more items was cleared.
ClearEmpties_Witness == lastOp.name = "clear" /\ Len(lastOp.pre) >= 2

\* C9: a toggle stores 'light' from 'dark' and 'dark' from 'light', a second
\* toggle would give the first theme back, and the stored theme is always
\* 'dark' or 'light'.
ThemeToggle ==
    /\ [](theme \in {"dark", "light"})
    /\ [][lastOp'.name = "toggle" =>
            /\ theme = "dark" => theme' = "light"
            /\ theme = "light" => theme' = "dark"
            /\ newTheme(theme') = theme]_vars

\* C9 witness: a toggle has brought the theme back to 'dark'.
ThemeToggle_Witness == lastOp.name = "toggle" /\ theme = "dark"

\* C10: a tick that reads the last-observed text changes neither
\* lastClipboardContent nor the history and does not call addToHistory; a
\* tick that reads another text stores it in lastClipboardContent and calls
\* addToHistory once, with that text.
PollTick ==
    [][lastOp'.name = "tick" =>
          IF clipboard = lastClipboardContent
          THEN /\ lastClipboardContent' = lastClipboardContent
               /\ history' = history
               /\ lastOp'.calls = << >>
          ELSE /\ lastClipboardContent' = clipboard
               /\ lastOp'.calls = << JsString(clipboard) >>
               /\ \E rnd \in RandomSuffixes :
                    history' = addToHistory(history, JsString(clipboard),
                                            maxCharacters, maxHistory, now + 1, rnd)]_vars

\* C10 witness: a tick read a new text and the call stored it.
PollTick_Witness == TickStored /\ lastClipboardContent = RawAdded

\* C11: after paste-item with content c the clipboard holds c and
\* lastClipboardContent equals c; from then on, for as long as no step is a
\* copy made outside the application, the two stay equal and no poll tick
\* changes the history.
PasteNotRecaptured ==
    /\ [](lastOp.name = "paste" =>
            clipboard = lastOp.text /\ lastClipboardContent = lastOp.text)
    /\ [][(clipboard = lastClipboardContent /\ lastOp'.name # "copy") =>
            /\ clipboard' = lastClipboardContent'
            /\ lastOp'.name = "tick" => history' = history /\ lastOp'.calls = << >>]_vars

\* C11 witness: the pasted text is not the content of the newest item, so a
\* tick that took it for a new copy would store it.
PasteNotRecaptured_Witness ==
    /\ lastOp.name = "paste"
    /\ history # << >>
    /\ history[1].content # lastOp.text
    /\ reachesSave(history, JsString(lastOp.text))

\* C12: the polling interval is always 5000 or 200; it is 5000 while the
\* history window has not been shown or is hidden, and 200 while it is
\* visible.
AdaptivePolling ==
    /\ clipboardCheckInterval \in {IdleInterval, ActiveInterval}
    /\ historyWindow = "visible" => clipboardCheckInterval = ActiveInterval
    /\ historyWindow # "visible" => clipboardCheckInterval = IdleInterval

\* C13: when the history window becomes visible while the poller is idle, the
\* 5000 ms timer is cancelled, whatever part of its period has run, and the
\* only timer armed from then on is a 200 ms timer that starts at the switch;
\* no timer runs past its period, so the next tick comes within 200 ms.
ImmediateSwitch ==
    /\ [](\A i \in DOMAIN timers : timers[i].elapsed <= timers[i].period)
    /\ [][(historyWindow # "visible" /\ historyWindow' = "visible"
            /\ clipboardCheckInterval = IdleInterval) =>
              timers' = << newTimer(ActiveInterval) >>]_vars

\* C14: delete-item, whether or not its id is in the history, sends exactly
\* one message: update-history with the stored history after the removal and
\* the stored theme.
DeleteReplies ==
    lastOp.name = "delete" =>
        /\ history = removeItem(lastOp.pre, lastOp.id)
        /\ lastOp.sent = << updateHistoryMessage(history, theme) >>

\* C14 witness: the id was in the history and other items remain, so the
\* history sent is neither the one before the removal nor empty.
DeleteReplies_Witness ==
    lastOp.name = "delete" /\ DeletedAt # {} /\ history # << >>

SnapshotAfterMutation ==
    (lastOp.name \in {"delete", "clear"} /\ history # lastOp.pre) =>
        lastOp.sent = << updateHistoryMessage(history, theme) >>

\* C17 as stated: every toggle sends theme-changed with the stored theme.
ThemeBroadcastAlways ==
    lastOp.name = "toggle" =>
        /\ lastOp.sent = << themeChangedMessage(theme) >>
        /\ rendererThemeAfter(lastOp.sent[1]) = theme

\* C17: a toggle stores the new theme; if the history window exists it then
\* sends exactly one message, theme-changed with the stored theme, after
\* which the renderer's currentTheme is the stored theme; without a window it
\* sends nothing.
ThemeBroadcast ==
    lastOp.name = "toggle" =>
        IF historyWindow # "null"
        THEN /\ lastOp.sent = << themeChangedMessage(theme) >>
             /\ rendererThemeAfter(lastOp.sent[1]) = theme
        ELSE lastOp.sent = << >>

\* C17 witness: a toggle with the window open has sent the new theme.
ThemeBroadcast_Witness ==
    lastOp.name = "toggle" /\ historyWindow # "null" /\ theme = "light"

\* The history the handler was to store.
IntendedHistory ==
    CASE lastOp.name = "tick" ->
           addToHistory(lastOp.pre, lastOp.calls[1], maxCharacters, maxHistory,
                        now, CHOOSE rnd \in RandomSuffixes : TRUE)
      [] lastOp.name = "delete" -> removeItem(lastOp.pre, lastOp.id)
      [] lastOp.name = "clear" -> clearHistory
      [] OTHER -> history

\* C18: when clipboard.readText fails on a tick, no exception leaves the
\* callback; the history, lastClipboardContent and the polling interval are
\* unchanged and the timer is still armed for the next tick.
ReadFailureSwallowed ==
    [][lastOp'.failure = "read" =>
          /\ ~lastOp'.uncaught
          /\ history' = history
          /\ lastClipboardContent' = lastClipboardContent
          /\ clipboardCheckInterval' = clipboardCheckInterval
          /\ Len(timers') = 1 /\ timers'[1].period = clipboardCheckInterval]_vars

\* C19: when the write of the store fails during an add, a delete or a
\* clear, the exception reaches the caller and the history read afterwards
\* is the one the handler was to store.
WriteFailureKeepsMutation ==
    lastOp.failure = "write" =>
        /\ lastOp.uncaught
        /\ history = IntendedHistory

\* C20: with no persisted configuration the history holds up to 30 entries:
\* an add to fewer than 30 entries drops none, and the length never exceeds 30.
DefaultCapacity ==
    /\ Len(history) <= ReadmeMaxHistory
    /\ (TickStored /\ Len(lastOp.pre) < ReadmeMaxHistory) =>
           Len(history) = Len(lastOp.pre) + 1

\* The places below the head of the history the handler started with whose
\* item has the trimmed text of the call as its content.
OlderEqualAt ==
    { i \in 2..Len(lastOp.pre) : lastOp.pre[i].content = trim(RawAdded) }

\* C21: a tick whose trimmed text is the content of an item below the head,
\* and not of the head, puts a new item with that content at index 0 and
\* keeps every older item with that content, one place further down, unless
\* the place is beyond maxHistory.
AdjacentOnlySuppression ==
    (/\ lastOp.name = "tick"
     /\ lastOp.calls # << >>
     /\ OlderEqualAt # {}
     /\ lastOp.pre[1].content # trim(RawAdded)) =>
        /\ history # << >>
        /\ history[1].content = trim(RawAdded)
        /\ history[1].timestamp = now
        /\ \A j \in 1..Len(lastOp.pre) : history[1].id # lastOp.pre[j].id
        /\ \A i \in OlderEqualAt :
             i + 1 <= maxHistory =>
                 Len(history) >= i + 1 /\ history[i + 1] = lastOp.pre[i]

\* C21 witness: the history holds the re-copied content twice, at the head
\* and further down.
AdjacentOnlySuppression_Witness ==
    /\ lastOp.name = "tick"
    /\ lastOp.calls # << >>
    /\ OlderEqualAt # {}
    /\ lastOp.pre[1].content # trim(RawAdded)
    /\ \E i \in OlderEqualAt : Len(history) >= i + 1 /\ history[i + 1] = lastOp.pre[i]

\* a is b with some of its elements taken away, the others in b's order.
RECURSIVE IsSubsequence(_, _)
IsSubsequence(a, b) ==
    IF a = << >> THEN TRUE
    ELSE IF b = << >> THEN FALSE
    ELSE IF Head(a) = Head(b) THEN IsSubsequence(Tail(a), Tail(b))
    ELSE IsSubsequence(a, Tail(b))

\* C22: in every step of every handler, an item whose id is in the history
\* before and after has the same id, content, timestamp, charCount and
\* isTruncated after as before, and the history after the step is the
\* history before it with some items taken away, the rest in their order
\* and, at most, one item put in front of them.
ItemsImmutable ==
    [][/\ \A i \in 1..Len(history) : \A j \in 1..Len(history') :
            history[i].id = history'[j].id => history[i] = history'[j]
       /\ \/ IsSubsequence(history', history)
          \/ /\ history' # << >>
             /\ IsSubsequence(Tail(history'), history)]_vars

\* C22 witness: one step has put an item in front and taken the oldest away,
\* and the items between are those that were there.
ItemsImmutable_Witness ==
    /\ TickStored
    /\ Len(lastOp.pre) = maxHistory
    /\ Len(history) >= 2
    /\ Tail(history) = SubSeq(lastOp.pre, 1, Len(lastOp.pre) - 1)

\* The ids of the items of history h.
IdsOf(h) == { h[i].id : i \in 1..Len(h) }

\* C23: the ids of the stored items are pairwise distinct, each is one that
\* generateId returned, and the id of a newly stored item is none of the ids
\* returned before, whether their items are still stored, were deleted or
\* were evicted.
UniqueIds ==
    /\ \A i, j \in 1..Len(history) : i # j => history[i].id # history[j].id
    /\ IdsOf(history) \subseteq issuedIds
    /\ TickStored => history[1].id \notin lastOp.issued

\* C23 witness: an item was stored, next to others, after an id returned
\* earlier had left the history.
UniqueIds_Witness ==
    /\ TickStored
    /\ Len(history) >= 2
    /\ lastOp.issued \ IdsOf(lastOp.pre) # {}

\* C24: the content of every stored item is non-empty and neither begins nor
\* ends with whitespace.
ContentNormalized ==
    \A i \in 1..Len(history) :
        /\ history[i].content # << >>
        /\ history[i].content[1] \notin Whitespace
        /\ history[i].content[Len(history[i].content)] \notin Whitespace

\* C25: when the process quits and starts again, the history (items, fields
\* and order) and the theme it reads are those that were current at the quit.
PersistsAcrossRestart ==
    [][lastOp'.name = "restart" => history' = history /\ theme' = theme]_vars

\* C25 witness: a process has started with a history of several items and
\* the theme 'light', both written by the run before.
PersistsAcrossRestart_Witness ==
    lastOp.name = "restart" /\ Len(history) >= 2 /\ theme = "light"

\* C26: a digit key k in 1..9 sends paste-item with the content of the k-th
\* item of the filtered list, the key 0 with that of the 10th; when the list
\* is shorter than that, nothing is sent.
QuickPasteKeys ==
    lastOp.name = "key" =>
        LET k == parseInt(lastOp.text[1])
            position == IF k = 0 THEN 10 ELSE k
        IN  IF position <= Len(filteredHistory)
            THEN lastOp.sent = << pasteItemMessage(filteredHistory[position].content) >>
            ELSE lastOp.sent = << >>

\* C26 witness: the key 0 has sent the 10th item of a list of ten or more.
QuickPasteKeys_Witness ==
    /\ lastOp.name = "key"
    /\ lastOp.text = << "0" >>
    /\ Len(filteredHistory) >= 10
    /\ lastOp.sent # << >>

\* C27: at every moment exactly one poll timer is armed, and it is the one
\* clipboardCheckInterval refers to: each change of the polling rate clears
\* the timer armed before and arms one.
SingleTimer ==
    /\ Len(timers) = 1
    /\ clipboardCheckInterval # 0
    /\ timers[1].period = clipboardCheckInterval

\* C27 witness: the rate has been changed to 200 ms and back to 5000 ms: the
\* window was shown, became ready and was hidden.
SingleTimer_Witness ==
    /\ lastOp.name = "hide"
    /\ ~readyToShowPending
    /\ clipboardCheckInterval = IdleInterval

\* C28: the paste handler writes the clipboard and lastClipboardContent in
\* one run, with no poll callback between, so it calls no addToHistory and
\* leaves the history as it is; and in every state, hence at the start of
\* every tick, if the last write of the clipboard was made by paste-item,
\* lastClipboardContent is the clipboard text.
OwnWriteNotExternal ==
    /\ clipboardWriter = "paste" => lastClipboardContent = clipboard
    /\ lastOp.name = "paste" => history = lastOp.pre /\ lastOp.calls = << >>

\* C28 witness: a tick has run while the last write of the clipboard was a
\* paste of a text that is not the content of the newest item.
OwnWriteNotExternal_Witness ==
    /\ lastOp.name = "tick"
    /\ clipboardWriter = "paste"
    /\ history # << >>
    /\ history[1].content # clipboard

\* C29: after a tick that read a text v other than lastClipboardContent,
\* with trim(v) not empty, the item at index 0 has as its content the first
\* min(len(trim(v)), maxCharacters) characters of trim(v), whether the tick
\* stored an item or the call was dropped as a duplicate.
HeadAfterChange ==
    (lastOp.name = "tick" /\ lastOp.calls # << >> /\ trim(RawAdded) # << >>) =>
        /\ history # << >>
        /\ history[1].content =
             SubSeq(trim(RawAdded), 1, Min(Len(trim(RawAdded)), maxCharacters))

\* C29 witness: the call was dropped as a duplicate of the newest item, the
\* text read being that item's content with blanks around it.
HeadAfterChange_Witness ==
    /\ lastOp.name = "tick"
    /\ lastOp.calls # << >>
    /\ trim(RawAdded) # << >>
    /\ RawAdded # trim(RawAdded)
    /\ ~reachesSave(lastOp.pre, lastOp.calls[1])

\* The program with its poll timer firing fairly: setInterval keeps calling
\* the callback for as long as the timer is armed, so a tick that stays
\* possible is eventually taken.
\* It is followed for one stored configuration, with the copies, the window's
\* show and hide switches, and the commands that write the store or the
\* clipboard, issued for the items of the history.
LiveMaxHistory == 2
LiveMaxCharacters == 2
LiveClock == 3

\* The texts copied: the empty text and the texts with something left after
\* trim().
LiveTexts == { s \in Texts : s = << >> \/ trim(s) # << >> }

InitLive ==
    /\ history = << >>
    /\ theme = "dark"
    /\ maxHistory = LiveMaxHistory
    /\ maxCharacters = LiveMaxCharacters
    /\ clipboard \in LiveTexts
    /\ clipboardWriter = "other"
    /\ lastClipboardContent = clipboard
    /\ clipboardCheckInterval = IdleInterval
    /\ timers = << newTimer(IdleInterval) >>
    /\ issuedIds = {}
    /\ historyWindow = "null"
    /\ readyToShowPending = FALSE
    /\ now = 0
    /\ RendererInit
    /\ rendererLoaded = FALSE
    /\ lastOp = Op("start", NoId, << >>)

TickLive == \E i \in DOMAIN timers : Fire(i, LiveClock)

NextLive ==
    \/ \E s \in LiveTexts : SetClipboard(s)
    \/ TickLive
    \/ \E i \in DOMAIN history : DeleteItem(history[i].id)
    \/ ClearHistory
    \/ \E i \in DOMAIN history : PasteItem(history[i].content)
    \/ ShowHistoryWindow
    \/ ReadyToShow
    \/ HideWindow

SpecLive == InitLive /\ [][NextLive]_vars /\ WF_vars(TickLive)

\* The clipboard holds v, v is not the text observed last and trim(v) is not
\* empty (the clock of the model has room for one more item).
CapturePending(v) ==
    /\ clipboard = v
    /\ lastClipboardContent # v
    /\ trim(v) # << >>
    /\ now < LiveClock

\* The newest item's content is trim(v) cut to maxCharacters.
CapturedAtHead(v) ==
    /\ history # << >>
    /\ history[1].content = SubSeq(trim(v), 1, Min(Len(trim(v)), maxCharacters))

\* C30 as stated: a pending text is at the head of the history in the end,
\* unless the clipboard text changes or a delete or clear is issued.  (A
\* paste-item of the same text leaves the clipboard text as it is, makes it
\* the text observed last, and no tick stores it.)
EventualCaptureUnlessChanged ==
    \A v \in LiveTexts :
        CapturePending(v) ~>
            (CapturedAtHead(v) \/ clipboard # v \/ lastOp.name \in { "delete", "clear" })

\* C30: a pending text is at the head of the history in the end, unless the
\* clipboard is written again (by another program or by paste-item) or a
\* delete or clear is issued; whatever the window does in between.
EventualCapture ==
    \A v \in LiveTexts :
        CapturePending(v) ~>
            (CapturedAtHead(v) \/ clipboard # v
               \/ lastOp.name \in { "delete", "clear", "paste" })

\* C30 witness: a tick at the 200 ms rate stored the clipboard's text, which
\* is now at the head.
EventualCapture_Witness ==
    /\ TickStored
    /\ clipboardCheckInterval = ActiveInterval
    /\ historyWindow = "visible"
    /\ trim(clipboard) # << >>
    /\ CapturedAtHead(clipboard)

\* The contents of the items the last operation removed, if it was a
\* delete-item or a clear.
RemovedContents ==
    IF lastOp.name = "delete"
    THEN { lastOp.pre[i].content : i \in DeletedAt }
    ELSE IF lastOp.name = "clear"
         THEN { lastOp.pre[i].content : i \in 1..Len(lastOp.pre) }
         ELSE { }

StartupNotRecorded ==
    /\ [](lastOp.name \in { "start", "restart" } => lastClipboardContent = clipboard)
    /\ [][/\ lastOp'.name = "restart" => history' = history
          /\ (lastOp.name \in { "start", "restart" } /\ lastOp'.name = "tick") =>
                history' = history /\ lastOp'.calls = << >>
          /\ (lastClipboardContent = clipboard /\ clipboard' = clipboard) =>
                /\ lastClipboardContent' = clipboard
                /\ lastOp'.name = "tick" => history' = history /\ lastOp'.calls = << >>]_vars

\* C32 witness: the process starts with a text on the clipboard that a tick
\* would store and that no item of the stored history holds.
StartupNotRecorded_Witness ==
    /\ lastOp.name = "restart"
    /\ trim(clipboard) # << >>
    /\ history # << >>
    /\ \A i \in 1..Len(history) :
          history[i].content # truncateContent(trim(clipboard), maxCharacters)

\* C33: the stored history is newest first: an item nearer the head has a
\* timestamp at least that of every item behind it; and paste-item leaves
\* the order as it was, the pasted item stays where it is.
NewestFirst ==
    /\ \A i, j \in 1..Len(history) :
          i < j => history[i].timestamp >= history[j].timestamp
    /\ lastOp.name = "paste" => history = lastOp.pre

\* C33 witness: the content of an item behind the head was pasted, and a
\* newer item is still at the head.
NewestFirst_Witness ==
    /\ lastOp.name = "paste"
    /\ Len(history) >= 2
    /\ lastOp.text = history[2].content
    /\ lastOp.text # history[1].content
    /\ history[1].timestamp > history[2].timestamp

\* C34: the stored history changes only in a tick that read a changed text,
\* in delete-item and in clearHistory: after every other handler (a copy by
\* another program, paste-item, toggle-theme, the window's show, hide and
\* ready-to-show, second-instance, activate) and after a tick that read the
\* text observed last, it is what it was before.
OnlyStoreOpsChangeHistory ==
    /\ lastOp.name \notin { "tick", "delete", "clear" } => history = lastOp.pre
    /\ (lastOp.name = "tick" /\ lastOp.calls = << >>) => history = lastOp.pre

\* C34 witness: the window was shown and the history sent, the history as it
\* was before, with items in it.
OnlyStoreOpsChangeHistory_Witness ==
    /\ lastOp.name = "show"
    /\ lastOp.sent # << >>
    /\ history # << >>
    /\ history = lastOp.pre

\* C35 as stated: no two neighbouring items of the stored history have equal
\* content.  (Violated: a tick stores a text whose cut form is the head's
\* content, the duplicate check having compared the uncut text; and
\* delete-item makes neighbours of the two items around the deleted one.)
NoAdjacentEqual ==
    \A i \in 1..(Len(history) - 1) : history[i].content # history[i + 1].content

-----------------------------------------------------------------------------
(* The main process and the renderer of the history window together *)

\* The stored limits and the clock of the runs followed here.
SyncMaxHistory == 3
SyncMaxCharacters == 3
SyncClock == 4

\* The texts copied: those trim() leaves as they are.
SyncTexts == { s \in Texts : trim(s) = s }

InitSync ==
    /\ history = << >>
    /\ theme = "dark"
    /\ maxHistory = SyncMaxHistory
    /\ maxCharacters = SyncMaxCharacters
    /\ clipboard = << >>
    /\ clipboardWriter = "other"
    /\ lastClipboardContent = clipboard
    /\ clipboardCheckInterval = IdleInterval
    /\ timers = << newTimer(IdleInterval) >>
    /\ issuedIds = {}
    /\ historyWindow = "null"
    /\ readyToShowPending = FALSE
    /\ now = 0
    /\ RendererInit
    /\ rendererLoaded = FALSE
    /\ lastOp = Op("start", NoId, << >>)

\* The messages webContents.send and event.reply have handed to the IPC
\* channel and the renderer has not taken yet: those of the last handler of
\* the main process.  The renderer takes a message before the next event of
\* either process is handled.
InFlight ==
    IF lastOp.name \in { "show", "second-instance", "delete", "toggle" }
    THEN lastOp.sent
    ELSE << >>

\* index.html has loaded renderer.js: the script runs, sets its state and
\* registers its ipcRenderer.on handlers.  This happens some time after
\* loadFile is called, before or after a message sent meanwhile arrives.
PageLoad ==
    /\ historyWindow # "null"
    /\ ~rendererLoaded
    /\ rendererLoaded' = TRUE
    /\ historyData' = << >>
    /\ filteredHistory' = << >>
    /\ selectedIndex' = 0
    /\ currentTheme' = "dark"
    /\ UNCHANGED mainVars
    /\ UNCHANGED lastOp

\* An update-history message reaches the renderer, whose handler runs.
Deliver ==
    /\ InFlight # << >>
    /\ rendererLoaded
    /\ OnUpdateHistory(InFlight[1])

\* An update-history message reaches a page that has no handler for it yet:
\* ipcRenderer emits it to no listener.
DeliverUnheard ==
    /\ InFlight # << >>
    /\ ~rendererLoaded
    /\ lastOp' = Op("unheard", NoId, << >>)
    /\ UNCHANGED mainVars
    /\ UNCHANGED rendererVars

\* Faulty variant: the selection moves down whatever the length of the list.
ArrowDown_NoGuard ==
    /\ selectedIndex' = selectedIndex + 1
    /\ lastOp' = [ Op("key", NoId, << >>) EXCEPT !.text = << "ArrowDown" >> ]
    /\ UNCHANGED << historyData, filteredHistory, currentTheme, rendererLoaded >>
    /\ UNCHANGED mainVars

\* handleKeyboard, case 'ArrowDown'
ArrowDown ==
    /\ selectedIndex' = IF selectedIndex < Len(filteredHistory) - 1
                        THEN selectedIndex + 1 ELSE selectedIndex
    /\ lastOp' = [ Op("key", NoId, << >>) EXCEPT !.text = << "ArrowDown" >> ]
    /\ UNCHANGED << historyData, filteredHistory, currentTheme, rendererLoaded >>
    /\ UNCHANGED mainVars

\* handleKeyboard, case 'ArrowUp'
ArrowUp ==
    /\ selectedIndex' = IF selectedIndex > 0 THEN selectedIndex - 1 ELSE selectedIndex
    /\ lastOp' = [ Op("key", NoId, << >>) EXCEPT !.text = << "ArrowUp" >> ]
    /\ UNCHANGED << historyData, filteredHistory, currentTheme, rendererLoaded >>
    /\ UNCHANGED mainVars

\* createHistoryItem, the 'mouseenter' listener of the element made for
\* filteredHistory[index] by the last renderHistory
MouseEnter(index) ==
    /\ selectedIndex' = index
    /\ lastOp' = Op("mouseenter", NoId, << >>)
    /\ UNCHANGED << historyData, filteredHistory, currentTheme, rendererLoaded >>
    /\ UNCHANGED mainVars

TickSync == \E i \in DOMAIN timers : Fire(i, SyncClock)

\* What the user does in the window: it is visible and its page has loaded.
RendererInput ==
    /\ historyWindow = "visible"
    /\ rendererLoaded
    /\ \/ \E value \in Queries : HandleSearch(value)
       \/ ArrowDown
       \/ ArrowUp
       \/ \E index \in 0..(Len(filteredHistory) - 1) : MouseEnter(index)
       \/ \E i \in DOMAIN filteredHistory : DeleteItem(filteredHistory[i].id)

NextSync ==
    \/ InFlight = << >> /\ \E s \in SyncTexts : SetClipboard(s)
    \/ InFlight = << >> /\ TickSync
    \/ InFlight = << >> /\ ClearHistory
    \/ InFlight = << >> /\ ShowHistoryWindow
    \/ InFlight = << >> /\ ReadyToShow
    \/ InFlight = << >> /\ HideWindow
    \/ InFlight = << >> /\ RendererInput
    \/ PageLoad
    \/ Deliver
    \/ DeliverUnheard

SpecSync == InitSync /\ [][NextSync]_vars

\* C36 as stated: with the window visible, its page loaded and no message in
\* flight, the renderer's historyData is the stored history: after a tick or
\* a clearHistory that found the renderer showing the items then stored, and
\* after the renderer took the message a handler sent.  (Violated: a tick
\* that stores an item and clearHistory send no update-history.)
DisplayedHistoryCurrent ==
    (historyWindow = "visible" /\ rendererLoaded /\ InFlight = << >>) =>
        /\ (lastOp.name \in { "tick", "clear" } /\ lastOp.pre # << >>
               /\ historyData = lastOp.pre) => historyData = history
        /\ lastOp.name = "update-history" => historyData = history

\* C37 as stated: every update-history message the main process sends
\* reaches a renderer whose handlers are registered.  (Violated: the message
\* showHistoryWindow sends in the call that creates the window can reach the
\* page before renderer.js has run.)
EveryMessageHeard == lastOp.name # "unheard"

\* C38: selectedIndex is 0 when filteredHistory is empty and an index of
\* filteredHistory otherwise, and filteredHistory is historyData with some
\* items left out, the others in their order.
SelectionInRange ==
    /\ filteredHistory = << >> => selectedIndex = 0
    /\ filteredHistory # << >> =>
          selectedIndex >= 0 /\ selectedIndex < Len(filteredHistory)
    /\ IsSubsequence(filteredHistory, historyData)

\* C38 witness: ArrowDown was pressed with the last item of the list
\* selected, the list being a proper part of historyData left by a search.
SelectionInRange_Witness ==
    /\ lastOp.name = "key"
    /\ lastOp.text = << "ArrowDown" >>
    /\ selectedIndex >= 1
    /\ selectedIndex = Len(filteredHistory) - 1
    /\ Len(filteredHistory) < Len(historyData)

=============================================================================
